---- MODULE Spec2Model ----
(***************************************************************************)
(* Compile-time member detection of sample/type_introspection.cpp.         *)
(*                                                                         *)
(* A candidate type is described by what a probe can see of it from        *)
(* outside: whether it is a class or a scalar, and, for each member name   *)
(* the four probes look up, what the name denotes and whether it is        *)
(* accessible.  A probe is an alias template; instantiating it either      *)
(* gives a type or is a substitution failure.  has_member selects between  *)
(* its primary template and its partial specialization.                    *)
(***************************************************************************)
EXTENDS Naturals, Sequences, FiniteSets

VARIABLES pc, query, third, probe, spec3, selected, base, diag,
          nextAssert, exitCode

vars == <<pc, query, third, probe, spec3, selected, base, diag,
          nextAssert, exitCode>>

\* Longest argument list given to void_t.
MaxArgs == 2

-----------------------------------------------------------------------------
(* Types as the probes see them *)

SubstFailure == "substitution failure"

MemberNames == {"value_type", "size_type", "data", "reserve", "operator="}

Mem(kind, access, deleted, params, type) ==
  [kind |-> kind, access |-> access, deleted |-> deleted,
   params |-> params, type |-> type]

NoMember == Mem("none", "public", FALSE, <<>>, "none")

PublicAlias(t) == Mem("type", "public", FALSE, <<>>, t)

PrivateAlias(t) == Mem("type", "private", FALSE, <<>>, t)

CopyAssign == Mem("method", "public", FALSE, <<"Tp const&">>, "Tp&")

DeletedCopyAssign == Mem("method", "public", TRUE, <<"Tp const&">>, "Tp&")

Class(name, vt, st, d, r, a) ==
  [name |-> name, kind |-> "class",
   members |-> [n \in MemberNames |->
                  CASE n = "value_type" -> vt
                    [] n = "size_type" -> st
                    [] n = "data" -> d
                    [] n = "reserve" -> r
                    [] n = "operator=" -> a]]

Scalar(name) ==
  [name |-> name, kind |-> "scalar", members |-> [n \in MemberNames |-> NoMember]]

NoType ==
  [name |-> "none", kind |-> "none", members |-> [n \in MemberNames |-> NoMember]]

\* std::vector<int>: value_type, size_type, data() and reserve(size_type)
Vector ==
  Class("std::vector<int>", PublicAlias("int"), PublicAlias("size_t"),
        Mem("method", "public", FALSE, <<>>, "int*"),
        Mem("method", "public", FALSE, <<"size_t">>, "void"), CopyAssign)

\* std::pair<int, int>: first_type and second_type only, members first, second
Pair ==
  Class("std::pair<int, int>", NoMember, NoMember, NoMember, NoMember, CopyAssign)

Int == Scalar("int")

TypeWithPublicData ==
  Class("TypeWithPublicData", NoMember, NoMember,
        Mem("field", "public", FALSE, <<>>, "int"), NoMember, CopyAssign)

TypeWithPrivateData ==
  Class("TypeWithPrivateData", NoMember, NoMember,
        Mem("field", "private", FALSE, <<>>, "int"), NoMember, CopyAssign)

\* std::array<int, 10>: value_type, size_type, data(), no reserve
Array ==
  Class("std::array<int, 10>", PublicAlias("int"), PublicAlias("size_t"),
        Mem("method", "public", FALSE, <<>>, "int*"), NoMember, CopyAssign)

\* std::unique_ptr<int>: element_type and pointer only; copy assignment deleted
UniquePtr ==
  Class("std::unique_ptr<int>", NoMember, NoMember, NoMember, NoMember,
        DeletedCopyAssign)

NamedTypes ==
  {Vector, Pair, Int, TypeWithPublicData, TypeWithPrivateData, Array, UniquePtr}

\* Candidate types of the caller: every class a probe can tell apart.
CandidateClasses ==
  {Class("candidate", vt, st, d, r, a) :
     vt \in {NoMember, PublicAlias("int"), PrivateAlias("int")},
     st \in {NoMember, PublicAlias("size_t"), PrivateAlias("size_t")},
     d \in {NoMember,
            Mem("field", "public", FALSE, <<>>, "int"),
            Mem("field", "private", FALSE, <<>>, "int"),
            Mem("method", "public", FALSE, <<>>, "int*")},
     r \in {NoMember,
            Mem("method", "public", FALSE, <<"size_t">>, "void"),
            Mem("method", "public", FALSE, <<>>, "void"),
            Mem("method", "public", FALSE, <<"nullptr_t">>, "void"),
            Mem("method", "private", FALSE, <<"size_t">>, "void")},
     a \in {CopyAssign, DeletedCopyAssign,
            Mem("method", "private", FALSE, <<"Tp const&">>, "Tp&")}}

Types == NamedTypes \cup CandidateClasses

-----------------------------------------------------------------------------
(* Expressions inside decltype *)

\* std::declval<Tp>() has type Tp&&: an xvalue for an object type Tp, and by
\* reference collapsing an lvalue of const type for Tp const&.
declval(Tp, ref) ==
  [type |-> Tp,
   category |-> IF ref = "const&" THEN "lvalue" ELSE "xvalue",
   const |-> (ref = "const&")]

Arithmetic == {"int", "size_t"}

\* Implicit conversion of an argument to a parameter of member n of obj.
Convertible(obj, arg, param) ==
  \/ param = "Tp const&" /\ arg.type = obj.type
  \/ arg.type.kind = "scalar" /\ arg.type.name = param
  \/ arg.type.kind = "scalar" /\ {arg.type.name, param} \subseteq Arithmetic

\* NestedType without the access check.
NestedTypeAnyAccess(Tp, n) ==
  LET m == Tp.members[n] IN
  IF Tp.kind = "class" /\ m.kind = "type" THEN m.type ELSE SubstFailure

\* typename Tp::n named from outside Tp
NestedType(Tp, n) ==
  LET m == Tp.members[n] IN
  IF Tp.kind = "class" /\ m.kind = "type" /\ m.access = "public"
  THEN m.type ELSE SubstFailure

\* MemberAccess without the access check.
MemberAccessAnyAccess(obj, n) ==
  LET m == obj.type.members[n] IN
  IF obj.type.kind = "class" /\ m.kind = "field" THEN m.type ELSE SubstFailure

\* decltype(obj.n) from outside the class: n has to name an accessible
\* data member; the name of a member function that is not called is no
\* expression decltype accepts.
MemberAccess(obj, n) ==
  LET m == obj.type.members[n] IN
  IF obj.type.kind = "class" /\ m.kind = "field" /\ m.access = "public"
  THEN m.type ELSE SubstFailure

\* MemberCall that also picks a deleted function.
MemberCallDeleted(obj, n, args) ==
  LET m == obj.type.members[n] IN
  IF /\ obj.type.kind = "class"
     /\ m.kind = "method" /\ m.access = "public"
     /\ Len(m.params) = Len(args)
     /\ \A i \in 1..Len(args) : Convertible(obj, args[i], m.params[i])
  THEN m.type ELSE SubstFailure

\* decltype(obj.n(args...)) from outside the class
MemberCall(obj, n, args) ==
  LET m == obj.type.members[n] IN
  IF /\ obj.type.kind = "class"
     /\ m.kind = "method" /\ m.access = "public" /\ ~m.deleted
     /\ Len(m.params) = Len(args)
     /\ \A i \in 1..Len(args) : Convertible(obj, args[i], m.params[i])
  THEN m.type ELSE SubstFailure

\* decltype(lhs = rhs): the built-in assignment needs a modifiable lvalue on
\* the left; for a class it is a call of operator=.
Assign(lhs, rhs) ==
  IF lhs.type.kind = "scalar"
  THEN IF lhs.category = "lvalue" /\ ~lhs.const /\ rhs.type = lhs.type
       THEN "Tp&" ELSE SubstFailure
  ELSE MemberCall(lhs, "operator=", <<rhs>>)

-----------------------------------------------------------------------------
(* The probes *)

ValueType(Tp) == NestedType(Tp, "value_type")

InspectDataProperty(Tp) == MemberAccess(declval(Tp, "value"), "data")

\* InspectReserve with std::size_t in place of typename Tp::size_type.
InspectReserveStdSize(Tp) ==
  MemberCall(declval(Tp, "value"), "reserve", <<declval(Scalar("size_t"), "value")>>)

InspectReserve(Tp) ==
  LET size_type == NestedType(Tp, "size_type") IN
  IF size_type = SubstFailure THEN SubstFailure
  ELSE MemberCall(declval(Tp, "value"), "reserve",
                  <<declval(Scalar(size_type), "value")>>)

InspectCopyAssignable(Tp) ==
  Assign(declval(Tp, "value"), declval(Tp, "const&"))

\* A probe whose expression names a function that is declared nowhere,
\* decltype(no_such_symbol(std::declval<Tp>())): the name is looked up when Tp
\* is substituted, and nothing is found for any Tp.
InspectNoSuchSymbol(Tp) == SubstFailure

SourceProbes ==
  {"ValueType", "InspectDataProperty", "InspectReserve", "InspectCopyAssignable"}

Probes == SourceProbes \cup {"InspectNoSuchSymbol"}

\* Member<Tp>
Instantiate(Member, Tp) ==
  CASE Member = "ValueType" -> ValueType(Tp)
    [] Member = "InspectDataProperty" -> InspectDataProperty(Tp)
    [] Member = "InspectReserve" -> InspectReserve(Tp)
    [] Member = "InspectCopyAssignable" -> InspectCopyAssignable(Tp)
    [] Member = "InspectNoSuchSymbol" -> InspectNoSuchSymbol(Tp)

-----------------------------------------------------------------------------
(* namespace meta *)

\* voider that names its first argument instead of void.
voiderFirst(Args) == IF Len(Args) = 0 THEN "void" ELSE Args[1]

\* detail::voider<...>::type
voider(Args) == "void"

\* apply as an alias that drops its arguments without substituting them.
applyUnusedArgs(MetaFunction, Args) ==
  CASE MetaFunction = "voider" -> voider(Args)

\* apply<MetaFunction, Args...>::type; the template-id cannot be formed when
\* one of Args is no type.
apply(MetaFunction, Args) ==
  IF \E i \in 1..Len(Args) : Args[i] = SubstFailure THEN SubstFailure
  ELSE CASE MetaFunction = "voider" -> voider(Args)

apply_t(MetaFunction, Args) == apply(MetaFunction, Args)

void_t(Ts) == apply_t("voider", Ts)

\* The third argument of has_member<Member, Tp> when it is left out.
DefaultThird == void_t(<<>>)

\* The third argument of the partial specialization for Member and Tp.
SpecializationThird(Member, Tp) == void_t(<<Instantiate(Member, Tp)>>)

\* A substitution failure that is an error wherever it happens.
OnSubstitutionFailureHard(site) == "error"

\* What a substitution failure does at a site: in the argument list of the
\* partial specialization it removes the specialization from the candidates;
\* anywhere else the program is ill-formed.
OnSubstitutionFailure(site) ==
  IF site = "specialization" THEN "discarded" ELSE "error"

\* The partial specialization is used when its arguments can be formed and
\* equal the arguments of the template-id; otherwise the primary template.
Select(thirdArg, specArg) ==
  IF specArg # SubstFailure /\ specArg = thirdArg
  THEN "specialization" ELSE "primary"

\* A primary template that derives from std::true_type.
BaseAlwaysTrue(sel) == "std::true_type"

Base(sel) ==
  IF sel = "specialization" THEN "std::true_type" ELSE "std::false_type"

\* has_member<Member, Tp>::value
has_member(Member, Tp) ==
  Base(Select(DefaultThird, SpecializationThird(Member, Tp))) = "std::true_type"

has_value_type(Tp) == has_member("ValueType", Tp)

has_data_property(Tp) == has_member("InspectDataProperty", Tp)

has_reserve(Tp) == has_member("InspectReserve", Tp)

is_copy_assignable(Tp) == has_member("InspectCopyAssignable", Tp)

\* The static assertions of the file, in order.
Battery ==
  << [Member |-> "ValueType", Tp |-> Vector, expected |-> TRUE],
     [Member |-> "ValueType", Tp |-> Pair, expected |-> FALSE],
     [Member |-> "ValueType", Tp |-> Int, expected |-> FALSE],
     [Member |-> "InspectDataProperty", Tp |-> TypeWithPublicData, expected |-> TRUE],
     [Member |-> "InspectDataProperty", Tp |-> Vector, expected |-> FALSE],
     [Member |-> "InspectDataProperty", Tp |-> TypeWithPrivateData, expected |-> FALSE],
     [Member |-> "InspectDataProperty", Tp |-> Int, expected |-> FALSE],
     [Member |-> "InspectReserve", Tp |-> Vector, expected |-> TRUE],
     [Member |-> "InspectReserve", Tp |-> Array, expected |-> FALSE],
     [Member |-> "InspectCopyAssignable", Tp |-> Vector, expected |-> TRUE],
     [Member |-> "InspectCopyAssignable", Tp |-> Pair, expected |-> TRUE],
     [Member |-> "InspectCopyAssignable", Tp |-> UniquePtr, expected |-> FALSE] >>

\* An instantiation of has_member<Member, Tp> that ends in an error instead
\* of a value.
HardError(Member, Tp) ==
  \/ /\ DefaultThird = SubstFailure
     /\ OnSubstitutionFailure("default argument") = "error"
  \/ /\ SpecializationThird(Member, Tp) = SubstFailure
     /\ OnSubstitutionFailure("specialization") = "error"

-----------------------------------------------------------------------------
(* One instantiation of has_member<Member, Tp>, step by step *)

Init ==
  /\ pc = "idle"
  /\ query = [Member |-> "none", Tp |-> NoType]
  /\ third = "none"
  /\ probe = "none"
  /\ spec3 = "none"
  /\ selected = "none"
  /\ base = "none"
  /\ diag = "none"
  /\ nextAssert = 1
  /\ exitCode = <<>>

\* The template-id has_member<Member, Tp> is named; its third argument is
\* the default argument of the primary template.
NameTemplateId(Member, Tp) ==
  /\ pc = "idle"
  /\ query' = [Member |-> Member, Tp |-> Tp]
  /\ third' = DefaultThird
  /\ IF DefaultThird = SubstFailure
        /\ OnSubstitutionFailure("default argument") = "error"
     THEN pc' = "failed" /\ diag' = "error"
     ELSE pc' = "named" /\ diag' = diag
  /\ UNCHANGED <<probe, spec3, selected, base, nextAssert, exitCode>>

\* Member and Tp are deduced for the partial specialization and Member<Tp>
\* is substituted.
SubstituteProbe ==
  /\ pc = "named"
  /\ probe' = Instantiate(query.Member, query.Tp)
  /\ pc' = "substituted"
  /\ UNCHANGED <<query, third, spec3, selected, base, diag, nextAssert, exitCode>>

\* The third argument of the specialization, void_t<Member<Tp>>, is formed.
FormSpecialization ==
  /\ pc = "substituted"
  /\ spec3' = void_t(<<probe>>)
  /\ IF void_t(<<probe>>) = SubstFailure
        /\ OnSubstitutionFailure("specialization") = "error"
     THEN pc' = "failed" /\ diag' = "error"
     ELSE pc' = "formed" /\ diag' = diag
  /\ UNCHANGED <<query, third, probe, selected, base, nextAssert, exitCode>>

\* The specialization or the primary template is chosen, and with it the base
\* class that holds value.
SelectTemplate ==
  /\ pc = "formed"
  /\ selected' = Select(third, spec3)
  /\ base' = Base(Select(third, spec3))
  /\ pc' = "done"
  /\ UNCHANGED <<query, third, probe, spec3, diag, nextAssert, exitCode>>

Next ==
  \/ \E Member \in Probes, Tp \in Types : NameTemplateId(Member, Tp)
  \/ SubstituteProbe
  \/ FormSpecialization
  \/ SelectTemplate

Spec == Init /\ [][Next]_vars

-----------------------------------------------------------------------------------------------------------------------------------------------------
(* The translation unit: its static assertions in order, then main *)

StaticAssert ==
  /\ diag = "none"
  /\ nextAssert <= Len(Battery)
  /\ LET a == Battery[nextAssert] IN
       diag' = IF HardError(a.Member, a.Tp) THEN "error"
               ELSE IF has_member(a.Member, a.Tp) # a.expected
                    THEN "static assertion failed" ELSE "none"
  /\ nextAssert' = nextAssert + 1
  /\ UNCHANGED <<pc, query, third, probe, spec3, selected, base, exitCode>>

main ==
  /\ diag = "none"
  /\ nextAssert > Len(Battery)
  /\ exitCode = <<>>
  /\ exitCode' = <<0>>
  /\ UNCHANGED <<pc, query, third, probe, spec3, selected, base, diag, nextAssert>>

NextUnit ==
  \/ StaticAssert
  \/ main

SpecUnit == Init /\ [][NextUnit]_vars

\* The file compiles: no static assertion fails.
UnitCompiles == diag = "none"

-----------------------------------------------------------------------------
(* Properties *)

\* C1: once has_member<P, T> is instantiated, for every probe P and type T:
\* if P<T> is well-formed the partial specialization is selected and value is
\* true; if P<T> is ill-formed the primary template is selected and value is
\* false.
C1_Detection ==
  pc = "done" =>
    LET wf == Instantiate(query.Member, query.Tp) # SubstFailure IN
    /\ wf => (selected = "specialization" /\ base = "std::true_type")
    /\ ~wf => (selected = "primary" /\ base = "std::false_type")
    /\ has_member(query.Member, query.Tp) = wf

C1_Witness ==
  /\ pc = "done"
  /\ query.Member = "InspectReserve"
  /\ query.Tp.name = "candidate"
  /\ probe # SubstFailure
  /\ selected = "specialization"

\* C2: for each of the four probes and each of the seven types of the file,
\* the instantiation never ends in an error, every step before the end has a
\* next step, and it ends with value either true or false; a probe that is
\* ill-formed leaves no diagnostic.
C2_TotalAndContained ==
  (query.Member \in SourceProbes /\ query.Tp \in NamedTypes) =>
    /\ diag = "none"
    /\ pc # "failed"
    /\ ~HardError(query.Member, query.Tp)
    /\ pc \in {"named", "substituted", "formed"} =>
         ENABLED (SubstituteProbe \/ FormSpecialization \/ SelectTemplate)
    /\ pc = "done" => base \in {"std::true_type", "std::false_type"}

C2_Witness ==
  /\ pc = "done"
  /\ query.Member = "InspectDataProperty"
  /\ query.Tp = TypeWithPrivateData
  /\ probe = SubstFailure
  /\ base = "std::false_type"
  /\ diag = "none"

\* C3: is_copy_assignable<T> is true exactly when the copy assignment of T
\* can be called on std::declval<T>() with a T const&: T is a class whose
\* copy assignment operator is accessible and not deleted.  It is true for
\* std::vector<int> and std::pair<int, int>, false for std::unique_ptr<int>.
C3_CopyAssignable ==
  (pc = "done" /\ query.Member = "InspectCopyAssignable") =>
    LET T == query.Tp
        m == T.members["operator="]
    IN  /\ (base = "std::true_type") <=>
             (/\ T.kind = "class"
              /\ m.kind = "method" /\ m.access = "public" /\ ~m.deleted)
        /\ T \in {Vector, Pair} => base = "std::true_type"
        /\ T = UniquePtr => base = "std::false_type"

C3_Witness ==
  /\ pc = "done"
  /\ query.Member = "InspectCopyAssignable"
  /\ query.Tp = UniquePtr
  /\ base = "std::false_type"

\* C4: is_copy_assignable<int>::value is true.
C4_IntCopyAssignable ==
  (pc = "done" /\ query.Member = "InspectCopyAssignable" /\ query.Tp = Int) =>
    base = "std::true_type"

\* C5: has_data_property<T> is true exactly when T is a class with a data
\* member named data that is accessible from outside T.  It is true for
\* TypeWithPublicData and false for TypeWithPrivateData, std::vector<int>
\* (data is a member function) and int.
C5_DataProperty ==
  (pc = "done" /\ query.Member = "InspectDataProperty") =>
    LET T == query.Tp
        m == T.members["data"]
    IN  /\ (base = "std::true_type") <=>
             (T.kind = "class" /\ m.kind = "field" /\ m.access = "public")
        /\ T = TypeWithPublicData => base = "std::true_type"
        /\ T \in {TypeWithPrivateData, Vector, Int} => base = "std::false_type"

C5_Witness ==
  /\ pc = "done"
  /\ query.Member = "InspectDataProperty"
  /\ query.Tp = Vector
  /\ base = "std::false_type"

\* C6: has_reserve<T> is true exactly when T declares an accessible nested
\* type size_type and has an accessible member function reserve that can be
\* called with one argument of that type.  It is true for std::vector<int>
\* and false for std::array<int, 10>.
C6_Reserve ==
  (pc = "done" /\ query.Member = "InspectReserve") =>
    LET T == query.Tp
        st == T.members["size_type"]
        r == T.members["reserve"]
    IN  /\ (base = "std::true_type") <=>
             (/\ T.kind = "class"
              /\ st.kind = "type" /\ st.access = "public"
              /\ r.kind = "method" /\ r.access = "public" /\ ~r.deleted
              /\ Len(r.params) = 1
              /\ \/ r.params[1] = st.type
                 \/ {r.params[1], st.type} \subseteq Arithmetic)
        /\ T = Vector => base = "std::true_type"
        /\ T = Array => base = "std::false_type"

C6_Witness ==
  /\ pc = "done"
  /\ query.Member = "InspectReserve"
  /\ query.Tp = Array
  /\ base = "std::false_type"

\* C7: has_value_type<T> is true exactly when T is a class that declares an
\* accessible nested type value_type.  It is true for std::vector<int> and
\* false for std::pair<int, int> and int.
C7_ValueType ==
  (pc = "done" /\ query.Member = "ValueType") =>
    LET T == query.Tp
        m == T.members["value_type"]
    IN  /\ (base = "std::true_type") <=>
             (T.kind = "class" /\ m.kind = "type" /\ m.access = "public")
        /\ T = Vector => base = "std::true_type"
        /\ T \in {Pair, Int} => base = "std::false_type"

C7_Witness ==
  /\ pc = "done"
  /\ query.Member = "ValueType"
  /\ query.Tp = Pair
  /\ base = "std::false_type"

\* C8: a probe whose substitution fails for every type gives value false for
\* every candidate type, and the instantiation never ends in an error.
C8_AlwaysIllFormedProbe ==
  query.Member = "InspectNoSuchSymbol" =>
    /\ \A Tp \in Types : Instantiate("InspectNoSuchSymbol", Tp) = SubstFailure
    /\ diag = "none"
    /\ pc # "failed"
    /\ pc = "done" => base = "std::false_type"

C8_Witness ==
  /\ pc = "done"
  /\ query.Member = "InspectNoSuchSymbol"
  /\ query.Tp = Vector
  /\ base = "std::false_type"

\* C9: void_t of any list of well-formed types, the empty list included, is
\* void, so the third argument formed for the specialization equals the
\* default third argument when Member<Tp> is well-formed; void_t of a list
\* holding an ill-formed type is itself ill-formed.
C9_VoidT ==
  /\ pc # "idle" => third = "void"
  /\ pc \in {"formed", "done", "failed"} =>
       /\ probe # SubstFailure => (spec3 = "void" /\ spec3 = third)
       /\ probe = SubstFailure => spec3 = SubstFailure
  /\ \A n \in 0..MaxArgs :
       \A Ts \in [1..n -> {"void", "int", "size_t", "int*", "Tp&", SubstFailure}] :
         void_t(Ts) = IF \E i \in 1..n : Ts[i] = SubstFailure
                      THEN SubstFailure ELSE "void"

C9_Witness ==
  /\ pc = "formed"
  /\ query.Member = "ValueType"
  /\ probe = "int"
  /\ spec3 = "void"
  /\ third = "void"

====
